---- MODULE Spec2Model ----
(***************************************************************************)
(* A model of padeopsIO.BudgetIO: one session over a run directory (raw     *)
(* backend) or an archive (npz / mat), its budget cache, its grid, its     *)
(* configuration file, its turbine array and the archives it writes.  The  *)
(* calls made on it, one after the other, are read_budgets, calc_wake,     *)
(* clear_budgets, _parse_budget_terms, the directory queries,              *)
(* normalize_origin, _load_grid, slice, write_npz, write_mat and           *)
(* write_metadata.                                                         *)
(*                                                                         *)
(* A call is one action.  The variable `last` records the latest call: its *)
(* arguments, the cache before it, the value it returned or the exception  *)
(* it raised, and the order in which it cleared and loaded (its log).      *)
(***************************************************************************)
EXTENDS Integers, Sequences, FiniteSets, TLC

VARIABLES
    backend,            \* "padeops" (raw), "npz" or "mat"
    files,              \* raw directory: the budget files, as <<budget, term, tidx>>
    archive,            \* archive backends: the names stored in <filename>_budgets
    associate_budgets,  \* self.associate_budgets
    all_budget_tidx,    \* self.all_budget_tidx: ascending sequence (raw backend)
    budget,             \* self.budget: name -> array
    budget_src,         \* for each cached name, the time index its data came from
    budget_tidx,        \* self.budget_tidx
    last,               \* the latest call
    store,              \* archive backends: the arrays stored in <filename>_budgets
    grid,               \* Lx .. nz, xLine, yLine, zLine, origin, normalized_xyz
    dest,               \* the directory write_npz and write_mat write to
    wrote,              \* the latest write that saved files, and the cache it saw
    setup               \* the configuration files, self.runid and self.turbineArray

vars == <<backend, files, archive, associate_budgets, all_budget_tidx,
          budget, budget_src, budget_tidx, last, store, grid, dest, wrote,
          setup>>

\* the directory and the files of the session
dir_vars == <<backend, files, archive, associate_budgets, all_budget_tidx, store,
              setup>>

----------------------------------------------------------------------------
(* Bounds of the model *)

\* time indices of the files of a run directory are 1 .. MaxTidx
MaxTidx == 3
\* a run directory holds at most MaxFiles budget files
MaxFiles == 2
\* an archive holds at most MaxArchive names
MaxArchive == 3
\* a request names at most MaxReq terms
MaxReq == 2
\* cell counts of the grid
NX == 2
NY == 2
NZ == 2
\* a grid built from extents has 1 .. MaxN points along an axis
MaxN == 3
\* the domain extents are the first MaxExtent multiples of the least extent
MaxExtent == 2
\* the significand of a floating-point number has FloatBits bits
FloatBits == 5
\* normalize_origin moves a coordinate of the origin to 0 or to MaxShift
MaxShift == 36
\* a run saves at most MaxWrites archives
MaxWrites == 1
\* the configuration files of a directory carry the runids 1 .. MaxRunid
MaxRunid == 2
\* a directory holds at most MaxInputfiles configuration files
MaxInputfiles == 2
\* turbine inputs, turbine numbers and num_turbines go up to MaxTurbines
MaxTurbines == 2
\* the sort keys (streamwise locations) of the turbines are 1 .. MaxXloc
MaxXloc == 2

\* Python's None, for tidx and budget_tidx
None == -1

----------------------------------------------------------------------------
(* The key registry *)

MeanNames == {"ubar", "vbar", "wbar"}
WakeNames == {"uwake", "vwake", "wwake"}
Names == MeanNames \cup WakeNames

\* BudgetIO.key: symbolic name -> (budget, term)
key(name) ==
    CASE name = "ubar"  -> <<0, 1>>
      [] name = "vbar"  -> <<0, 2>>
      [] name = "wbar"  -> <<0, 3>>
      [] name = "uwake" -> <<5, 1>>
      [] name = "vwake" -> <<5, 2>>
      [] name = "wwake" -> <<5, 3>>

InKey(t) == t \in Names
Pairs == {key(n) : n \in Names}
InKeyInverse(tup) == tup \in Pairs
\* a variant of the inverse lookup that matches the term id alone
key_inverse_by_term(tup) == CHOOSE n \in Names : key(n)[2] = tup[2]

\* BudgetIO.key.inverse[tup][0]
key_inverse(tup) == CHOOSE n \in Names : key(n) = tup

----------------------------------------------------------------------------
(* Arrays *)

Grid == (1..NX) \X (1..NY) \X (1..NZ)

\* the content of the budget file of (budget, term) at time index tidx,
\* reshaped to (nx, ny, nz)
FileData(tup, tidx) ==
    [c \in Grid |-> 100 * tidx + 10 * tup[2] + 3 * c[1] + c[2] + 2 * c[3]]

\* the content of the entry `name` of an archive found on disk
ArchiveData(name) ==
    [c \in Grid |-> 50 * key(name)[1] + 10 * key(name)[2] + 3 * c[1] + c[2] + 2 * c[3]]

EmptyBudget == [n \in {} |-> 0]

Put(f, n, v) == [x \in (DOMAIN f) \cup {n} |-> IF x = n THEN v ELSE f[x]]

RECURSIVE SumSeq(_)
SumSeq(s) == IF s = <<>> THEN 0 ELSE Head(s) + SumSeq(Tail(s))

----------------------------------------------------------------------------
(* The directory indexer *)

RECURSIVE SortedSeq(_)
\* the ascending sequence of the elements of a set of integers
SortedSeq(S) ==
    IF S = {} THEN <<>>
    ELSE LET m == CHOOSE x \in S : \A y \in S : x <= y
         IN  <<m>> \o SortedSeq(S \ {m})

Range(s) == {s[i] : i \in DOMAIN s}

\* unique_tidx with the budget pattern, return_last = False: the distinct
\* time indices of the budget files, ascending
unique_budget_tidx_all == SortedSeq({f[3] : f \in files})

\* unique_budget_tidx(return_last = True): None on an archive backend
unique_budget_tidx_last ==
    IF backend # "padeops" THEN None
    ELSE LET t == unique_budget_tidx_all IN t[Len(t)]

\* existing_budgets(): the budget ids found, 5 added when 0 is present
existing_budgets ==
    LET budget_list == IF backend = "padeops"
                       THEN {f[1] : f \in files}
                       ELSE {key(t)[1] : t \in archive}
    IN  budget_list \cup (IF 0 \in budget_list THEN {5} ELSE {})

\* existing_terms(budget = None, include_wakes): names of the terms found
existing_terms(include_wakes) ==
    IF backend = "padeops"
    THEN LET tup_list ==
               {<<f[1], f[2]>> : f \in {g \in files : g[1] \in existing_budgets}}
               \cup (IF include_wakes /\ 5 \in existing_budgets
                     THEN {<<5, t>> : t \in {u \in {1, 2, 3} :
                                              \E g \in files : g[1] = 0 /\ g[2] = u}}
                     ELSE {})
         IN  {key_inverse(tup) : tup \in tup_list}
    ELSE archive

\* the argument budget of existing_terms: None, or the budget ids given
NoBudget == [given |-> FALSE, ids |-> {}]
Budget(ids) == [given |-> TRUE, ids |-> ids]

\* existing_terms(budget, include_wakes): the terms found, and whether they
\* are returned as symbolic names or as (budget, term) tuples
existing_terms_budget(budget_arg, include_wakes) ==
    IF ~budget_arg.given
    THEN [kind |-> "names", terms |-> existing_terms(include_wakes)]
    ELSE IF backend = "padeops"
    THEN [kind |-> "names",
          terms |-> {key_inverse(tup) : tup \in
              {<<f[1], f[2]>> : f \in {g \in files : g[1] \in budget_arg.ids}}
              \cup (IF include_wakes /\ 5 \in budget_arg.ids
                    THEN {<<5, t>> : t \in {u \in {1, 2, 3} :
                                             \E g \in files : g[1] = 0 /\ g[2] = u}}
                    ELSE {})}]
    ELSE [kind |-> "tuples",
          terms |-> {tup \in {key(t) : t \in archive} : tup[1] \in budget_arg.ids}]

\* the orders in which os.listdir can list the files of the run directory
Listings ==
    {l \in [1..Cardinality(files) -> files] :
        \A i, j \in DOMAIN l : i # j => l[i] # l[j]}

RECURSIVE SortList(_)
\* t_list.sort()
SortList(t_list) ==
    IF t_list = <<>> THEN <<>>
    ELSE LET i == CHOOSE a \in DOMAIN t_list :
                     \A b \in DOMAIN t_list : t_list[a] <= t_list[b]
         IN  <<t_list[i]>> \o
             SortList([j \in 1..(Len(t_list) - 1) |->
                          IF j < i THEN t_list[j] ELSE t_list[j + 1]])

\* a variant of unique_tidx that returns an empty result when no file
\* name matches
unique_tidx_no_raise(t_list, return_last) ==
    IF backend # "padeops" THEN [exc |-> "none", val |-> None]
    ELSE IF return_last
         THEN [exc |-> "none",
               val |-> IF t_list = <<>> THEN None
                       ELSE SortList(t_list)[Len(t_list)]]
         ELSE [exc |-> "none", val |-> SortedSeq(Range(SortList(t_list)))]

\* unique_tidx(return_last, search_str), t_list the integers captured from
\* the file names that match, in the order of the listing
unique_tidx(t_list, return_last) ==
    IF backend # "padeops" THEN [exc |-> "none", val |-> None]
    ELSE IF t_list = <<>> THEN [exc |-> "FileNotFoundError", val |-> None]
    ELSE IF return_last
         THEN [exc |-> "none", val |-> SortList(t_list)[Len(t_list)]]
         \* np.unique(t_list)
         ELSE [exc |-> "none", val |-> SortedSeq(Range(SortList(t_list)))]

\* unique_budget_tidx(return_last): unique_tidx with the budget pattern
unique_budget_tidx(listing, return_last) ==
    unique_tidx([i \in DOMAIN listing |-> listing[i][3]], return_last)

----------------------------------------------------------------------------
(* Term resolution *)

\* a variant of _parse_budget_terms that drops the entries given as
\* (budget, term) pairs
parse_budget_terms_names_only(budget_terms, include_wakes) ==
    LET existing_keys == existing_terms(include_wakes)
        valid_keys    == {t \in budget_terms.names : t \in existing_keys}
    IN  [k \in valid_keys |-> key(k)]

\* _parse_budget_terms(budget_terms, include_wakes) for a list budget_terms,
\* given as the set of names and the set of (budget, term) pairs it holds.
\* Returns key_subset: name -> (budget, term).
parse_budget_terms(budget_terms, include_wakes) ==
    LET existing_keys == existing_terms(include_wakes)
        existing_tup  == {key(k) : k \in existing_keys}
        valid_keys    == {t \in budget_terms.names : t \in existing_keys}
        valid_tup     == {tup \in budget_terms.pairs : tup \in existing_tup}
        valid_terms   == valid_keys \cup {key_inverse(tup) : tup \in valid_tup}
    IN  [k \in valid_terms |-> key(k)]

----------------------------------------------------------------------------
(* The session state a call works on, and what it leaves behind *)

NoInflow == [u |-> <<>>, v |-> <<>>, w |-> <<>>]

\* budget, src, budget_tidx: the cache; log: the clears, loads and wake
\* computations done so far in the call, in order; exc: the exception
\* raised, "none" if none; inflow: the inflow profiles last retrieved
Session == [budget |-> budget, src |-> budget_src, budget_tidx |-> budget_tidx,
            log |-> <<>>, exc |-> "none", inflow |-> NoInflow]

Raise(s, e) == [s EXCEPT !.exc = e]

ClearEvent == [ev |-> "clear", terms |-> {}, tidx |-> None]
LoadEvent(S, t) == [ev |-> "load", terms |-> S, tidx |-> t]
WakeEvent(S, t) == [ev |-> "wake", terms |-> S, tidx |-> t]

\* the orders in which a loop over key_subset can visit its keys.  The
\* dictionary is built from a set of strings, whose order is not fixed;
\* only the mean terms are ever read from files of a run directory, so only
\* their order is left open
Orders ==
    {o \o <<"uwake", "vwake", "wwake">> :
        o \in {p \in [1..Cardinality(MeanNames) -> MeanNames] :
                 \A i, j \in DOMAIN p : i # j => p[i] # p[j]}}

\* the keys of key_subset in the order the loop visits them
Visit(key_subset, order) ==
    LET In(n) == n \in key_subset IN SelectSeq(order, In)

----------------------------------------------------------------------------
(* clear_budgets and the backend readers *)

\* a variant of clear_budgets that resets budget_tidx and keeps the entries
clear_budgets_keeps_entries(s) ==
    IF ~associate_budgets THEN s
    ELSE [s EXCEPT !.budget_tidx = unique_budget_tidx_last,
                   !.log = Append(@, ClearEvent)]

\* a variant of clear_budgets that empties the cache and leaves budget_tidx
\* at the index that was active
clear_budgets_keeps_tidx(s) ==
    IF ~associate_budgets THEN s
    ELSE [s EXCEPT !.budget = EmptyBudget,
                   !.src = EmptyBudget,
                   !.log = Append(@, ClearEvent)]

\* clear_budgets()
clear_budgets(s) ==
    IF ~associate_budgets THEN s
    ELSE [s EXCEPT !.budget = EmptyBudget,
                   !.src = EmptyBudget,
                   !.budget_tidx = unique_budget_tidx_last,
                   !.log = Append(@, ClearEvent)]

\* a variant of the nearest-index search that takes the last index of a
\* least distance
ArgMinAbs_last(tidx_arr, tidx) ==
    LET Abs(x) == IF x < 0 THEN -x ELSE x
    IN  CHOOSE i \in DOMAIN tidx_arr :
          /\ \A j \in DOMAIN tidx_arr :
                Abs(tidx_arr[i] - tidx) <= Abs(tidx_arr[j] - tidx)
          /\ \A j \in DOMAIN tidx_arr :
                Abs(tidx_arr[j] - tidx) = Abs(tidx_arr[i] - tidx) => j <= i

\* np.argmin(np.abs(tidx_arr - tidx)): the first index of a least distance
ArgMinAbs(tidx_arr, tidx) ==
    LET Abs(x) == IF x < 0 THEN -x ELSE x
    IN  CHOOSE i \in DOMAIN tidx_arr :
          /\ \A j \in DOMAIN tidx_arr :
                Abs(tidx_arr[i] - tidx) <= Abs(tidx_arr[j] - tidx)
          /\ \A j \in DOMAIN tidx_arr :
                Abs(tidx_arr[j] - tidx) = Abs(tidx_arr[i] - tidx) => i <= j

\* the time index _read_budgets_padeops reads from
ResolveTidx(s, tidx) ==
    IF tidx = None THEN s.budget_tidx
    ELSE IF tidx \notin Range(all_budget_tidx)
         THEN all_budget_tidx[ArgMinAbs(all_budget_tidx, tidx)]
         ELSE tidx

\* _read_budgets_padeops(key_subset, tidx): the loop loads key after key and
\* stops with IndexError at the first key that has no file at the time index
read_budgets_padeops(s, key_subset, tidx, order) ==
    LET t      == ResolveTidx(s, tidx)
        ks     == Visit(key_subset, order)
        HasFile(n) == <<key(n)[1], key(n)[2], t>> \in files
        bad    == {i \in DOMAIN ks : ~HasFile(ks[i])}
        stop   == IF bad = {} THEN Len(ks) + 1
                  ELSE CHOOSE i \in bad : \A j \in bad : i <= j
        loaded == {ks[i] : i \in 1..(stop - 1)}
        s1     == IF loaded = {} THEN s
                  ELSE [s EXCEPT
                          !.budget = [n \in (DOMAIN s.budget) \cup loaded |->
                                        IF n \in loaded THEN FileData(key(n), t)
                                        ELSE s.budget[n]],
                          !.src = [n \in (DOMAIN s.src) \cup loaded |->
                                        IF n \in loaded THEN t ELSE s.src[n]],
                          !.budget_tidx = t,
                          !.log = Append(@, LoadEvent(loaded, t))]
    IN  IF bad = {} THEN s1 ELSE Raise(s1, "IndexError")

\* _read_budgets_npz(key_subset) and _read_budgets_mat(key_subset)
read_budgets_archive(s, key_subset) ==
    IF key_subset = {} THEN s
    ELSE [s EXCEPT
            !.budget = [n \in (DOMAIN s.budget) \cup key_subset |->
                          IF n \in key_subset THEN store[n] ELSE s.budget[n]],
            !.src = [n \in (DOMAIN s.src) \cup key_subset |->
                          IF n \in key_subset THEN None ELSE s.src[n]],
            !.log = Append(@, LoadEvent(key_subset, None))]

----------------------------------------------------------------------------
(* The wake calculator and read_budgets *)

\* inflow.InflowParser.inflow_budgets(self): the profile at the first
\* x-index of the cached mean velocity `name`, averaged over y
inflow_budgets(s, name) ==
    [k \in 1..NZ |-> SumSeq([j \in 1..NY |-> s.budget[name][<<1, j, k>>]]) \div NY]

\* inflow.InflowParser.inflow_offline(..., zLine): the target profile of
\* the run's configuration, a function of height alone
inflow_offline(name) ==
    [k \in 1..NZ |-> IF name = "ubar" THEN 500 + k ELSE 0]

\* _get_inflow(offline, wInflow): the profiles u, v and (all zero) w
get_inflow(s, offline, wInflow) ==
    [u |-> IF offline THEN inflow_offline("ubar") ELSE inflow_budgets(s, "ubar"),
     v |-> IF offline THEN inflow_offline("vbar") ELSE inflow_budgets(s, "vbar"),
     w |-> [k \in 1..NZ |-> 0]]

\* a variant of read_budgets that clears the cache only for overwrite
read_budgets_terms_no_invalidation(s, budget_terms, overwrite, tidx, order) ==
    IF ~associate_budgets THEN Raise(s, "AttributeError")
    ELSE
    LET parsed == DOMAIN parse_budget_terms(budget_terms, FALSE)
        same   == s.budget_tidx = tidx
        key_subset == IF same /\ ~overwrite
                      THEN parsed \ DOMAIN s.budget
                      ELSE parsed
        s2 == IF same /\ overwrite THEN clear_budgets(s) ELSE s
    IN  IF backend = "padeops"
        THEN read_budgets_padeops(s2, key_subset, tidx, order)
        ELSE read_budgets_archive(s2, key_subset)

\* a variant of read_budgets that, under overwrite, loads the terms again
\* over the cache without emptying it
read_budgets_terms_overwrite_in_place(s, budget_terms, overwrite, tidx, order) ==
    IF ~associate_budgets THEN Raise(s, "AttributeError")
    ELSE
    LET parsed == DOMAIN parse_budget_terms(budget_terms, FALSE)
        same   == s.budget_tidx = tidx
        key_subset == IF same /\ ~overwrite
                      THEN parsed \ DOMAIN s.budget
                      ELSE parsed
        s2 == IF ~same /\ tidx # None THEN clear_budgets(s) ELSE s
    IN  IF backend = "padeops"
        THEN read_budgets_padeops(s2, key_subset, tidx, order)
        ELSE read_budgets_archive(s2, key_subset)

\* read_budgets(budget_terms, overwrite, tidx) for budget_terms naming no
\* wake term, and the part of read_budgets that follows the wake terms
read_budgets_terms(s, budget_terms, overwrite, tidx, order) ==
    IF ~associate_budgets THEN Raise(s, "AttributeError")
    ELSE
    LET parsed == DOMAIN parse_budget_terms(budget_terms, FALSE)
        same   == s.budget_tidx = tidx
        \* same index without overwrite: drop the keys already loaded
        key_subset == IF same /\ ~overwrite
                      THEN parsed \ DOMAIN s.budget
                      ELSE parsed
        \* same index with overwrite, or another index given: clear
        s2 == IF same
              THEN (IF overwrite THEN clear_budgets(s) ELSE s)
              ELSE (IF tidx # None THEN clear_budgets(s) ELSE s)
    IN  IF backend = "padeops"
        THEN read_budgets_padeops(s2, key_subset, tidx, order)
        ELSE read_budgets_archive(s2, key_subset)

\* self.budget['wwake'] = self.budget['wbar'] - w, under wInflow
calc_wake_w(s, wInflow) ==
    IF ~wInflow THEN s
    ELSE IF "wbar" \notin DOMAIN s.budget THEN Raise(s, "KeyError")
    ELSE [s EXCEPT
            !.budget = Put(@, "wwake",
                [c \in Grid |-> s.budget["wbar"][c] - s.inflow.w[c[3]]]),
            !.src = Put(@, "wwake", s.src["wbar"]),
            !.log = Append(@, WakeEvent({"wwake"}, s.src["wbar"]))]

\* self.budget['uwake'] = u - self.budget['ubar']
calc_wake_u(s) ==
    IF s.exc # "none" THEN s
    ELSE IF "ubar" \notin DOMAIN s.budget THEN Raise(s, "KeyError")
    ELSE [s EXCEPT
            !.budget = Put(@, "uwake",
                [c \in Grid |-> s.inflow.u[c[3]] - s.budget["ubar"][c]]),
            !.src = Put(@, "uwake", s.src["ubar"]),
            !.log = Append(@, WakeEvent({"uwake"}, s.src["ubar"]))]

\* self.budget['vwake'] = v - self.budget['vbar']
calc_wake_v(s) ==
    IF s.exc # "none" THEN s
    ELSE IF "vbar" \notin DOMAIN s.budget THEN Raise(s, "KeyError")
    ELSE [s EXCEPT
            !.budget = Put(@, "vwake",
                [c \in Grid |-> s.inflow.v[c[3]] - s.budget["vbar"][c]]),
            !.src = Put(@, "vwake", s.src["vbar"]),
            !.log = Append(@, WakeEvent({"vwake"}, s.src["vbar"]))]

\* calc_wake from the retrieval of the inflow profiles on
calc_wake_store(s, offline, wInflow) ==
    IF s.exc # "none" THEN s
    ELSE IF ~offline /\ ~({"ubar", "vbar"} \subseteq DOMAIN s.budget)
         THEN Raise(s, "KeyError")
    ELSE calc_wake_v(calc_wake_u(calc_wake_w(
             [s EXCEPT !.inflow = get_inflow(s, offline, wInflow)], wInflow)))

\* a variant of calc_wake that computes the wake terms again when they are
\* cached
calc_wake_again(s, offline, wInflow, overwrite, order) ==
    calc_wake_store(
        IF ~(({"ubar", "vbar"} \cup (IF wInflow THEN {"wbar"} ELSE {}))
               \subseteq DOMAIN s.budget)
        THEN read_budgets_terms(
                 s, [names |-> {"ubar", "vbar"} \cup (IF wInflow THEN {"wbar"} ELSE {}),
                     pairs |-> {}],
                 FALSE, None, order)
        ELSE s,
        offline, wInflow)

\* calc_wake(offline, wInflow, overwrite)
calc_wake(s, offline, wInflow, overwrite, order) ==
    LET target_terms == {"uwake", "vwake"} \cup (IF wInflow THEN {"wwake"} ELSE {})
        req_terms    == {"ubar", "vbar"} \cup (IF wInflow THEN {"wbar"} ELSE {})
    IN  IF target_terms \subseteq DOMAIN s.budget /\ ~overwrite THEN s
        ELSE calc_wake_store(
                 \* self.read_budgets(budget_terms=req_terms): req_terms
                 \* names no wake term
                 IF ~(req_terms \subseteq DOMAIN s.budget)
                 THEN read_budgets_terms(s, [names |-> req_terms, pairs |-> {}],
                                         FALSE, None, order)
                 ELSE s,
                 offline, wInflow)

\* a variant of read_budgets that returns at once, raising nothing, when no
\* budgets are associated
read_budgets_unlinked_returns(s, budget_terms, overwrite, tidx, order) ==
    IF ~associate_budgets THEN s
    ELSE
    LET rest(s1) == IF s1.exc # "none" THEN s1
                    ELSE read_budgets_terms(s1, budget_terms, overwrite, tidx, order)
    IN  rest(IF budget_terms.names \cap WakeNames # {}
             THEN calc_wake(s, FALSE, FALSE, FALSE, order)
             ELSE s)

\* read_budgets(budget_terms, overwrite, tidx)
read_budgets(s, budget_terms, overwrite, tidx, order) ==
    IF ~associate_budgets THEN Raise(s, "AttributeError")
    ELSE
    LET rest(s1) == IF s1.exc # "none" THEN s1
                    ELSE read_budgets_terms(s1, budget_terms, overwrite, tidx, order)
    \* wake terms named: calc_wake() first
    IN  rest(IF budget_terms.names \cap WakeNames # {}
             THEN calc_wake(s, FALSE, FALSE, FALSE, order)
             ELSE s)

----------------------------------------------------------------------------
(* Floating-point coordinates and the grid *)

\* A coordinate is a whole number of units.  The result of an arithmetic
\* operation is rounded to FloatBits significant bits, ties to even, the
\* way float64 rounds to 53.

RECURSIVE Pow2(_)
Pow2(n) == IF n = 0 THEN 1 ELSE 2 * Pow2(n - 1)

RECURSIVE Quantum(_, _)
\* the spacing of the floating-point numbers around a >= 0
Quantum(a, q) == IF a < q * Pow2(FloatBits) THEN q ELSE Quantum(a, 2 * q)

\* a >= 0 rounded to a multiple of q, ties to the even multiple
TiesToEven(a, q) ==
    LET lo == (a \div q) * q
    IN  IF 2 * (a - lo) < q THEN lo
        ELSE IF 2 * (a - lo) > q THEN lo + q
        ELSE IF (lo \div q) % 2 = 0 THEN lo ELSE lo + q

\* the floating-point number nearest to x
Fl(x) == IF x < 0 THEN 0 - TiesToEven(0 - x, Quantum(0 - x, 1))
         ELSE TiesToEven(x, Quantum(x, 1))

\* a / n for a >= 0 and n > 0
FDiv(a, n) ==
    LET q0 == a \div n
        r  == a % n
    IN  Fl(IF 2 * r < n THEN q0
           ELSE IF 2 * r > n THEN q0 + 1
           ELSE IF q0 % 2 = 0 THEN q0 ELSE q0 + 1)

\* np.linspace(start, stop, num): num points, the last one set to stop
Linspace(start, stop, num) ==
    IF num = 1 THEN <<start>>
    ELSE [i \in 1..num |->
            IF i = num THEN stop
            ELSE Fl(start + Fl((i - 1) * FDiv(Fl(stop - start), num - 1)))]

\* a variant of _load_grid with the z axis built like the x and y axes
load_grid_node_centered(Lx, Ly, Lz, nx, ny, nz) ==
    [Lx |-> Lx, Ly |-> Ly, Lz |-> Lz, nx |-> nx, ny |-> ny, nz |-> nz,
     dx |-> FDiv(Lx, nx), dy |-> FDiv(Ly, ny), dz |-> FDiv(Lz, nz),
     xLine |-> Linspace(0, Fl(Lx - FDiv(Lx, nx)), nx),
     yLine |-> Linspace(0, Fl(Ly - FDiv(Ly, ny)), ny),
     zLine |-> Linspace(0, Fl(Lz - FDiv(Lz, nz)), nz),
     origin |-> <<0, 0, 0>>, normalized_xyz |-> FALSE]

\* _load_grid() with the extents and counts of the namelist
load_grid(Lx, Ly, Lz, nx, ny, nz) ==
    [Lx |-> Lx, Ly |-> Ly, Lz |-> Lz, nx |-> nx, ny |-> ny, nz |-> nz,
     dx |-> FDiv(Lx, nx), dy |-> FDiv(Ly, ny), dz |-> FDiv(Lz, nz),
     xLine |-> Linspace(0, Fl(Lx - FDiv(Lx, nx)), nx),
     yLine |-> Linspace(0, Fl(Ly - FDiv(Ly, ny)), ny),
     \* staggered in z
     zLine |-> Linspace(FDiv(FDiv(Lz, nz), 2),
                        Fl(Lz - FDiv(FDiv(Lz, nz), 2)), nz),
     origin |-> <<0, 0, 0>>, normalized_xyz |-> FALSE]

\* xi.max() - xi.min() of an ascending axis
AxisExtent(xi) == Fl(xi[Len(xi)] - xi[1])
\* xi[1] - xi[0]; None for an axis of one point
AxisSpacing(xi) == IF Len(xi) > 1 THEN Fl(xi[2] - xi[1]) ELSE None

\* _load_grid(x, y, z, origin) with the axes of a metadata record
load_grid_axes(x, y, z, origin) ==
    [Lx |-> AxisExtent(x), Ly |-> AxisExtent(y), Lz |-> AxisExtent(z),
     nx |-> Len(x), ny |-> Len(y), nz |-> Len(z),
     dx |-> AxisSpacing(x), dy |-> AxisSpacing(y), dz |-> AxisSpacing(z),
     xLine |-> x, yLine |-> y, zLine |-> z,
     origin |-> origin, normalized_xyz |-> FALSE]

\* the argument None of normalize_origin
NoPoint == <<>>

\* axis -= shift and axis += shift, element by element
Shifted(axis, shift) == [i \in DOMAIN axis |-> Fl(axis[i] - shift)]
Unshifted(axis, shift) == [i \in DOMAIN axis |-> Fl(axis[i] + shift)]

\* normalize_origin(xyz)
normalize_origin(g, xyz) ==
    IF xyz # NoPoint
    THEN [g EXCEPT !.xLine = Shifted(@, Fl(xyz[1] - g.origin[1])),
                   !.yLine = Shifted(@, Fl(xyz[2] - g.origin[2])),
                   !.zLine = Shifted(@, Fl(xyz[3] - g.origin[3])),
                   !.normalized_xyz = TRUE,
                   !.origin = xyz]
    ELSE [g EXCEPT !.xLine = Unshifted(@, g.origin[1]),
                   !.yLine = Unshifted(@, g.origin[2]),
                   !.zLine = Unshifted(@, g.origin[3]),
                   !.normalized_xyz = FALSE,
                   !.origin = <<0, 0, 0>>]

\* _load_grid(normalize_origin=xyz) on a session whose grid is associated
\* and whose namelist gave the extents and the counts: returns at once
\* under verbose; otherwise builds the axes again, sets the origin to the
\* default and recenters if a point is given
load_grid_again(g, verbose, xyz) ==
    IF verbose THEN g
    ELSE IF xyz = NoPoint
         THEN [load_grid(g.Lx, g.Ly, g.Lz, g.nx, g.ny, g.nz)
                  EXCEPT !.normalized_xyz = g.normalized_xyz]
    ELSE normalize_origin(
             [load_grid(g.Lx, g.Ly, g.Lz, g.nx, g.ny, g.nz)
                 EXCEPT !.normalized_xyz = g.normalized_xyz], xyz)

RECURSIVE Factorial(_)
Factorial(n) == IF n = 0 THEN 1 ELSE n * Factorial(n - 1)

\* the domain extents of the namelists: every count 1 .. MaxN divides them
\* into cells of an even number of units
Extents == {2 * Factorial(MaxN) * k : k \in 1..MaxExtent}
LeastExtent == 2 * Factorial(MaxN)

\* the points normalize_origin is called with
Shifts == {0, MaxShift}
Targets == {NoPoint} \cup [1..3 -> Shifts]

----------------------------------------------------------------------------
(* The session and the calls made on it *)

ReqNames == Names \cup {"bogus"}
ReqPairs == {<<0, 2>>, <<9, 9>>}

\* the lists of terms a caller passes, of at most MaxReq entries
Requests ==
    {[names |-> N, pairs |-> P] : <<N, P>> \in
        {q \in (SUBSET ReqNames) \X (SUBSET ReqPairs) :
            Cardinality(q[1]) + Cardinality(q[2]) <= MaxReq}}

NoRequest == [names |-> {}, pairs |-> {}]

\* the budget files a run directory can hold: mean terms at 1 .. MaxTidx
AllFiles == {<<key(n)[1], key(n)[2], t>> : n \in MeanNames, t \in 1..MaxTidx}

Call(op, budget_terms, tidx, overwrite, offline, wInflow, include_wakes, s, ret) ==
    [op |-> op, budget_terms |-> budget_terms, tidx |-> tidx,
     overwrite |-> overwrite, offline |-> offline, wInflow |-> wInflow,
     include_wakes |-> include_wakes,
     pre_budget |-> budget, pre_src |-> budget_src, pre_tidx |-> budget_tidx,
     log |-> s.log, exc |-> s.exc, inflow |-> s.inflow, ret |-> ret]

\* no call to look at: the session is between two calls
NoCall ==
    [op |-> "idle", budget_terms |-> NoRequest, tidx |-> None,
     overwrite |-> FALSE, offline |-> FALSE, wInflow |-> FALSE,
     include_wakes |-> FALSE,
     pre_budget |-> EmptyBudget, pre_src |-> EmptyBudget, pre_tidx |-> None,
     log |-> <<>>, exc |-> "none", inflow |-> NoInflow, ret |-> EmptyBudget]

Idle == last = NoCall

\* a file that does not exist
NoFile == [exists |-> FALSE, data |-> EmptyBudget]
\* <filename>_budgets and <filename>_metadata, in one format
NoArchive == [budgets |-> NoFile, metadata |-> NoFile]
\* the directory written to holds no archive
NoDest == [npz |-> NoArchive, mat |-> NoArchive]

\* files found in the directory written to, left by an earlier session
OldBudgets == [exists |-> TRUE, data |-> [n \in {"ubar"} |-> ArchiveData(n)]]
OldMetadata ==
    [exists |-> TRUE,
     data |-> [x |-> <<0>>, y |-> <<0>>, z |-> <<0>>, origin |-> <<0, 0, 0>>]]

\* no write has saved files
NoWrite == [fmt |-> "none", budget_terms |-> NoRequest, current |-> FALSE,
            budget |-> EmptyBudget, x |-> <<>>, y |-> <<>>, z |-> <<>>,
            origin |-> <<>>, n |-> 0]

\* no turbine array: usewindturbines is False
NoArray == [num_turbines |-> 0, array |-> <<>>, turbines |-> <<>>, exc |-> "none",
            associate |-> FALSE]

\* a session over a directory with one configuration file, of run 1, that
\* was asked for run 1, without turbines
BaseSetup == [inputfiles |-> <<1>>, turbfiles |-> {}, input_nml |-> 1, runid |-> 1,
              associate_nml |-> TRUE, turbineArray |-> NoArray]

\* the grid of the run directories and of the archives found on disk
BaseGrid == load_grid(LeastExtent, LeastExtent, LeastExtent, NX, NY, NZ)

\* what a call leaves in the session
Leaves(s) ==
    /\ budget' = s.budget
    /\ budget_src' = s.src
    /\ budget_tidx' = s.budget_tidx
    /\ UNCHANGED <<dir_vars, grid, dest, wrote>>

\* BudgetIO(dir_name, padeops=True), BudgetIO(dir_name, npz=True) and
\* BudgetIO(dir_name, mat=True)
Init ==
    /\ backend \in {"padeops", "npz", "mat"}
    /\ IF backend = "padeops"
       THEN /\ files \in {F \in SUBSET AllFiles : Cardinality(F) <= MaxFiles}
            /\ archive = {}
            /\ associate_budgets = (files # {})
       ELSE /\ files = {}
            /\ archive \in {A \in SUBSET Names : Cardinality(A) <= MaxArchive}
            /\ associate_budgets = TRUE
    /\ all_budget_tidx = unique_budget_tidx_all
    /\ budget_tidx = IF backend = "padeops" /\ associate_budgets
                     THEN unique_budget_tidx_last ELSE None
    /\ budget = EmptyBudget
    /\ budget_src = EmptyBudget
    /\ last = NoCall
    /\ store = [n \in archive |-> ArchiveData(n)]
    /\ grid = IF backend = "padeops" THEN BaseGrid
              ELSE load_grid_axes(BaseGrid.xLine, BaseGrid.yLine, BaseGrid.zLine,
                                  <<0, 0, 0>>)
    /\ dest = NoDest
    /\ wrote = NoWrite
    /\ setup = BaseSetup

ReadBudgets ==
    /\ Idle
    /\ \E budget_terms \in Requests, overwrite \in BOOLEAN,
          tidx \in {None} \cup (1..MaxTidx), order \in Orders :
         \E s \in {read_budgets(Session, budget_terms, overwrite, tidx, order)} :
             /\ Leaves(s)
             /\ last' = Call("read_budgets", budget_terms, tidx, overwrite,
                             FALSE, FALSE, FALSE, s, EmptyBudget)

CalcWake ==
    /\ Idle
    /\ \E offline \in BOOLEAN, wInflow \in BOOLEAN, overwrite \in BOOLEAN,
          order \in Orders :
         \E s \in {calc_wake(Session, offline, wInflow, overwrite, order)} :
             /\ Leaves(s)
             /\ last' = Call("calc_wake", NoRequest, None, overwrite,
                             offline, wInflow, FALSE, s, EmptyBudget)

ClearBudgets ==
    /\ Idle
    /\ \E s \in {clear_budgets(Session)} :
           /\ Leaves(s)
           /\ last' = Call("clear_budgets", NoRequest, None, FALSE, FALSE, FALSE, FALSE,
                           s, EmptyBudget)

ParseBudgetTerms ==
    /\ Idle
    /\ \E budget_terms \in Requests, include_wakes \in BOOLEAN :
         /\ Leaves(Session)
         /\ last' = Call("parse_budget_terms", budget_terms, None, FALSE, FALSE,
                         FALSE, include_wakes, Session,
                         parse_budget_terms(budget_terms, include_wakes))

\* the call has returned to its caller; the next call can be made
Return ==
    /\ ~Idle
    /\ last' = NoCall
    /\ UNCHANGED <<dir_vars, budget, budget_src, budget_tidx, grid, dest, wrote>>

Next == ReadBudgets \/ CalcWake \/ ClearBudgets \/ ParseBudgetTerms \/ Return

Spec == Init /\ [][Next]_vars

----------------------------------------------------------------------------
(* The directory queries *)

\* a query: its arguments, the exception it raised, the value it returned
QueryCall(op, args, exc, ret) ==
    [NoCall EXCEPT !.op = op, !.exc = exc, !.ret = ret] @@ [args |-> args]

\* the budget ids existing_terms is asked for
BudgetIds == {0, 1, 5}
BudgetArgs == {NoBudget} \cup {Budget(ids) : ids \in (SUBSET BudgetIds) \ {{}}}

ExistingBudgets ==
    /\ Idle
    \* list(np.unique(budget_list))
    /\ last' = QueryCall("existing_budgets", <<>>, "none", SortedSeq(existing_budgets))
    /\ UNCHANGED <<dir_vars, budget, budget_src, budget_tidx, grid, dest, wrote>>

ExistingTerms ==
    /\ Idle
    /\ \E budget_arg \in BudgetArgs, include_wakes \in BOOLEAN :
         last' = QueryCall("existing_terms",
                           [budget |-> budget_arg, include_wakes |-> include_wakes],
                           "none", existing_terms_budget(budget_arg, include_wakes))
    /\ UNCHANGED <<dir_vars, budget, budget_src, budget_tidx, grid, dest, wrote>>

UniqueBudgetTidx ==
    /\ Idle
    /\ \E listing \in Listings, return_last \in BOOLEAN :
         \E r \in {unique_budget_tidx(listing, return_last)} :
            last' = QueryCall("unique_budget_tidx", [return_last |-> return_last],
                              r.exc, [val |-> r.val])
    /\ UNCHANGED <<dir_vars, budget, budget_src, budget_tidx, grid, dest, wrote>>

NextIndex == ExistingBudgets \/ ExistingTerms \/ UniqueBudgetTidx \/ Return

SpecIndex == Init /\ [][NextIndex]_vars

----------------------------------------------------------------------------
(* Sessions over run directories of any extents and counts, recentered *)

\* a call that works on the grid: its argument and the grid before it
GridCall(op, xyz) ==
    [NoCall EXCEPT !.op = op] @@ [xyz |-> xyz, pre_grid |-> grid]

\* BudgetIO(dir_name, padeops=True) over a run directory without budget
\* files, whose namelist gives the extents and the counts
Construct ==
    /\ Idle
    /\ \E L \in Extents, nx \in 1..MaxN, ny \in 1..MaxN, nz \in 1..MaxN :
         grid' = load_grid(L, L, L, nx, ny, nz)
    /\ last' = GridCall("__init__", NoPoint)
    /\ UNCHANGED <<dir_vars, budget, budget_src, budget_tidx, dest, wrote>>

NormalizeOrigin ==
    /\ Idle
    /\ \E xyz \in Targets :
         /\ grid' = normalize_origin(grid, xyz)
         /\ last' = GridCall("normalize_origin", xyz)
    /\ UNCHANGED <<dir_vars, budget, budget_src, budget_tidx, dest, wrote>>

\* self._load_grid(normalize_origin=xyz) once the session is constructed
LoadGrid ==
    /\ Idle
    /\ \E verbose \in BOOLEAN, xyz \in Targets :
         /\ grid' = load_grid_again(grid, verbose, xyz)
         /\ last' = GridCall("_load_grid", xyz) @@ [verbose |-> verbose]
    /\ UNCHANGED <<dir_vars, budget, budget_src, budget_tidx, dest, wrote>>

InitGrid ==
    /\ backend = "padeops"
    /\ files = {}
    /\ archive = {}
    /\ associate_budgets = FALSE
    /\ all_budget_tidx = <<>>
    /\ budget_tidx = None
    /\ budget = EmptyBudget
    /\ budget_src = EmptyBudget
    /\ last = NoCall
    /\ store = EmptyBudget
    /\ grid = BaseGrid
    /\ dest = NoDest
    /\ wrote = NoWrite
    /\ setup = BaseSetup

NextGrid == Construct \/ NormalizeOrigin \/ LoadGrid \/ Return

SpecGrid == InitGrid /\ [][NextGrid]_vars

----------------------------------------------------------------------------
(* Slices of a field over the grid *)

\* a field passed to slice(field=...): one value per cell of the grid
FieldData(g) ==
    [c \in (1..g.nx) \X (1..g.ny) \X (1..g.nz) |-> 100 * c[1] + 10 * c[2] + c[3]]

\* xlim, ylim, zlim: None, a coordinate, or a pair of coordinates
NoLimit == [kind |-> "none", lo |-> 0, hi |-> 0]
At(c) == [kind |-> "scalar", lo |-> c, hi |-> c]
Between(a, b) == [kind |-> "range", lo |-> a, hi |-> b]

\* the limits a caller passes for an axis: coordinates of its points
Limits(ax) ==
    {NoLimit} \cup {At(ax[i]) : i \in DOMAIN ax}
              \cup {Between(ax[i], ax[j]) : <<i, j>> \in
                        {q \in (DOMAIN ax) \X (DOMAIN ax) : q[1] <= q[2]}}

\* the index of the point of ax nearest to c, the first of two equally near
NearestIndex(ax, c) ==
    CHOOSE i \in DOMAIN ax :
        \A j \in DOMAIN ax :
            \/ (IF ax[i] < c THEN c - ax[i] ELSE ax[i] - c)
                  < (IF ax[j] < c THEN c - ax[j] ELSE ax[j] - c)
            \/ /\ (IF ax[i] < c THEN c - ax[i] ELSE ax[i] - c)
                    = (IF ax[j] < c THEN c - ax[j] ELSE ax[j] - c)
               /\ i <= j

\* get_xids(..., return_none=True, return_slice=True) for one axis: the
\* whole axis for None, an integer for a coordinate, the slice lo .. hi
\* (both included) for a pair
get_xid(ax, lim) ==
    CASE lim.kind = "none"   -> [int |-> FALSE, lo |-> 1, hi |-> Len(ax)]
      [] lim.kind = "scalar" -> [int |-> TRUE, lo |-> NearestIndex(ax, lim.lo),
                                 hi |-> NearestIndex(ax, lim.lo)]
      [] lim.kind = "range"  -> [int |-> FALSE, lo |-> NearestIndex(ax, lim.lo),
                                 hi |-> NearestIndex(ax, lim.hi)]

get_xids(g, xlim, ylim, zlim) ==
    <<get_xid(g.xLine, xlim), get_xid(g.yLine, ylim), get_xid(g.zLine, zlim)>>

\* np.squeeze(np.reshape(field, dims)[xid, yid, zid]): an integer index
\* removes its axis, squeeze removes every axis left with one element.
\* axes: the axes of the field that remain, in order; shape: their lengths
squeeze_axes(ids) ==
    LET Remains(a) == ~ids[a].int /\ ids[a].hi - ids[a].lo + 1 > 1
    IN  SelectSeq(<<1, 2, 3>>, Remains)

squeeze_shape(ids) ==
    [p \in DOMAIN squeeze_axes(ids) |->
        ids[squeeze_axes(ids)[p]].hi - ids[squeeze_axes(ids)[p]].lo + 1]

\* the index tuples of an array of this shape
IndexSet(shape) ==
    {idx \in [DOMAIN shape -> 1..MaxN] : \A p \in DOMAIN shape : idx[p] <= shape[p]}

\* the cell of the field an element of the squeezed array comes from
SourceCell(ids, idx) ==
    [a \in 1..3 |->
        IF \E p \in DOMAIN squeeze_axes(ids) : squeeze_axes(ids)[p] = a
        THEN ids[a].lo - 1
               + idx[CHOOSE p \in DOMAIN squeeze_axes(ids) : squeeze_axes(ids)[p] = a]
        ELSE ids[a].lo]

\* slices['x'] = xLine[xid]: a number (ndim 0) for an integer index, a
\* one-dimensional array for a slice
sliced_axis(ax, id) ==
    [ndim |-> IF id.int THEN 0 ELSE 1, val |-> SubSeq(ax, id.lo, id.hi)]

\* [np.min(slices[term]), np.max(slices[term])] if slices[term].ndim > 0
axis_extent(sl) ==
    IF sl.ndim > 0
    THEN <<CHOOSE v \in Range(sl.val) : \A w \in Range(sl.val) : v <= w,
           CHOOSE v \in Range(sl.val) : \A w \in Range(sl.val) : w <= v>>
    ELSE <<>>

\* slice(field=field, xlim, ylim, zlim) from the indices on: the sliced
\* array, the sliced axes and the extent
slice_field(g, field, ids) ==
    [axes  |-> squeeze_axes(ids),
     shape |-> squeeze_shape(ids),
     field |-> [idx \in IndexSet(squeeze_shape(ids)) |->
                  field[<<SourceCell(ids, idx)[1], SourceCell(ids, idx)[2],
                          SourceCell(ids, idx)[3]>>]],
     x |-> sliced_axis(g.xLine, ids[1]),
     y |-> sliced_axis(g.yLine, ids[2]),
     z |-> sliced_axis(g.zLine, ids[3]),
     extent |-> axis_extent(sliced_axis(g.xLine, ids[1]))
                \o axis_extent(sliced_axis(g.yLine, ids[2]))
                \o axis_extent(sliced_axis(g.zLine, ids[3]))]

\* self.slice(field=field, xlim=xlim, ylim=ylim, zlim=zlim)
Slice ==
    /\ Idle
    /\ \E xlim \in Limits(grid.xLine), ylim \in Limits(grid.yLine),
          zlim \in Limits(grid.zLine) :
         last' = [GridCall("slice", NoPoint) EXCEPT
                     !.ret = slice_field(grid, FieldData(grid),
                                         get_xids(grid, xlim, ylim, zlim))]
                 @@ [lim |-> <<xlim, ylim, zlim>>]
    /\ UNCHANGED <<dir_vars, budget, budget_src, budget_tidx, grid, dest, wrote>>

NextSlice == Construct \/ Slice \/ Return

SpecSlice == InitGrid /\ [][NextSlice]_vars

----------------------------------------------------------------------------
(* The configuration files and the turbine array *)

\* the run identifiers a configuration file can carry; None: no io/runid
Runids == {None} \cup (1..MaxRunid)

\* glob('*.dat'): the configuration files of a directory, each by the
\* runid it carries
InputfileLists == UNION {[1..n -> Runids] : n \in 0..MaxInputfiles}

\* _convenience_variables(): self.runid = self.input_nml['io']['runid']
convenience_variables(su, i) ==
    IF su.inputfiles[i] = None
    THEN [setup |-> [su EXCEPT !.input_nml = i], exc |-> "KeyError"]
    ELSE [setup |-> [su EXCEPT !.input_nml = i, !.runid = su.inputfiles[i],
                               !.associate_nml = TRUE],
          exc |-> "none"]

\* _read_inputfile(runid) in a new session over the directory of su
read_inputfile(su, runid) ==
    IF Len(su.inputfiles) = 0
    THEN [setup |-> su, exc |-> "FileNotFoundError"]
    ELSE IF runid # None /\ \E i \in DOMAIN su.inputfiles : su.inputfiles[i] = runid
    THEN convenience_variables(su,
             CHOOSE i \in DOMAIN su.inputfiles :
                 /\ su.inputfiles[i] = runid
                 /\ \A j \in 1..(i - 1) : su.inputfiles[j] # runid)
    ELSE convenience_variables(su, 1)

\* a directory before a session is made over it
Directory(inputfile_ls, turbfiles) ==
    [inputfiles |-> inputfile_ls, turbfiles |-> turbfiles, input_nml |-> 0,
     runid |-> None, associate_nml |-> FALSE, turbineArray |-> NoArray]

\* the inputs of a turbine, each by its sort key (xloc)
TurbineInputs == UNION {[1..n -> 1..MaxXloc] : n \in 0..MaxTurbines}

\* self.sort(): the turbines in ascending sort key, equal keys in the order
\* they had
sort(turbines) ==
    CHOOSE t \in [DOMAIN turbines -> Range(turbines)] :
        /\ Range(t) = Range(turbines)
        /\ \A p, q \in DOMAIN t :
             p < q => \/ t[p].xloc < t[q].xloc
                      \/ t[p].xloc = t[q].xloc /\ t[p].n < t[q].n

\* the loop over init_ls with num_turbines set, sort(), and the
\* convenience variables of a single turbine
build_array(init_ls, num_turbines) ==
    [num_turbines |-> num_turbines,
     array |-> SubSeq(init_ls, 1, IF num_turbines < Len(init_ls)
                                  THEN num_turbines ELSE Len(init_ls)),
     turbines |-> sort([i \in 1..(IF num_turbines < Len(init_ls)
                                  THEN num_turbines ELSE Len(init_ls)) |->
                          [n |-> i, xloc |-> init_ls[i]]]),
     exc |-> IF num_turbines = 1 /\ Len(init_ls) = 0 THEN "IndexError" ELSE "none",
     associate |-> ~(num_turbines = 1 /\ Len(init_ls) = 0)]

\* a variant that sets num_turbines to the number of turbines it holds
TurbineArray_counts_held(init_ls, num_turbines) ==
    build_array(init_ls,
                IF num_turbines # None /\ num_turbines < Len(init_ls)
                THEN num_turbines ELSE Len(init_ls))

\* TurbineArray(init_ls=init_ls, num_turbines=num_turbines)
TurbineArray(init_ls, num_turbines) ==
    build_array(init_ls, IF num_turbines # None THEN num_turbines ELSE Len(init_ls))

\* the turbine loop of write_metadata: for k in range(num_turbines), the
\* series of turbine k + 1 are read from the files of the run; a missing
\* file is no KeyError and ends the call
turbine_series(ta, turbfiles) ==
    IF \A k \in 1..ta.num_turbines : k \in turbfiles
    THEN [exc |-> "none", asked |-> 1..ta.num_turbines, saved |-> 1..ta.num_turbines]
    ELSE [exc |-> "FileNotFoundError",
          asked |-> {k \in 1..ta.num_turbines :
                        \A j \in 1..(k - 1) : j \in turbfiles},
          saved |-> {k \in 1..ta.num_turbines :
                        \A j \in 1..k : j \in turbfiles}]

\* write_metadata(write_dir, fname, src, x, y, z) of a session with
\* turbines: the axes, the origin, the turbine array and the series
write_metadata_turbines(d, src, ta, series) ==
    IF series.exc # "none" THEN d
    ELSE [d EXCEPT ![src].metadata =
            [exists |-> TRUE,
             data |-> [x |-> grid.xLine, y |-> grid.yLine, z |-> grid.zLine,
                       origin |-> grid.origin,
                       turbineArray |-> [num_turbines |-> ta.num_turbines,
                                         turbines |-> [i \in DOMAIN ta.turbines |->
                                                         ta.turbines[i].xloc]],
                       series |-> series.saved]]]

SetupCall(op, exc) == [NoCall EXCEPT !.op = op, !.exc = exc]

\* BudgetIO(dir_name, padeops=True, runid=runid) over the same directory:
\* _init_padeops up to the configuration; a failed construction leaves the
\* session there was
InitPadeops ==
    /\ Idle
    /\ \E runid \in Runids :
         \E r \in {read_inputfile(Directory(setup.inputfiles, setup.turbfiles), runid)} :
            /\ setup' = IF r.exc = "none" THEN r.setup ELSE setup
            /\ last' = SetupCall("_init_padeops", r.exc)
                          @@ [runid |-> runid, input_nml |-> r.setup.input_nml]
    /\ UNCHANGED <<backend, files, archive, associate_budgets, all_budget_tidx,
                   store, budget, budget_src, budget_tidx, grid, dest, wrote>>

\* self.turbineArray = TurbineArray(init_ls=init_ls, num_turbines=num_turbines)
NewTurbineArray ==
    /\ Idle
    /\ \E init_ls \in TurbineInputs, num_turbines \in {None} \cup (0..MaxTurbines) :
         \E ta \in {TurbineArray(init_ls, num_turbines)} :
            /\ setup' = IF ta.exc = "none" THEN [setup EXCEPT !.turbineArray = ta]
                        ELSE setup
            /\ last' = SetupCall("TurbineArray", ta.exc)
                          @@ [init_ls |-> init_ls, num_turbines |-> num_turbines]
    /\ UNCHANGED <<backend, files, archive, associate_budgets, all_budget_tidx,
                   store, budget, budget_src, budget_tidx, grid, dest, wrote>>

\* self.write_metadata(write_dir, fname, src, x, y, z) with turbines
WriteMetadata ==
    /\ Idle
    /\ setup.turbineArray.associate
    /\ Cardinality({f \in {"npz", "mat"} : dest[f].metadata.exists}) < MaxWrites
    /\ \E src \in {"npz", "mat"} :
         \E series \in {turbine_series(setup.turbineArray, setup.turbfiles)} :
            /\ dest' = write_metadata_turbines(dest, src, setup.turbineArray, series)
            /\ last' = SetupCall("write_metadata", series.exc)
                          @@ [src |-> src, asked |-> series.asked]
    /\ UNCHANGED <<dir_vars, budget, budget_src, budget_tidx, grid, wrote>>

\* BudgetIO(dir_name, padeops=True, runid=runid) that succeeded, over a
\* directory with configuration files and the series of the turbines the
\* run had (turbines 1 .. k)
InitSetup ==
    /\ backend = "padeops"
    /\ files = {}
    /\ archive = {}
    /\ associate_budgets = FALSE
    /\ all_budget_tidx = <<>>
    /\ budget_tidx = None
    /\ budget = EmptyBudget
    /\ budget_src = EmptyBudget
    /\ last = NoCall
    /\ store = EmptyBudget
    /\ grid = BaseGrid
    /\ dest = NoDest
    /\ wrote = NoWrite
    /\ \E inputfile_ls \in InputfileLists, runid \in Runids,
          turbfiles \in {1..k : k \in 0..MaxTurbines} :
         /\ read_inputfile(Directory(inputfile_ls, turbfiles), runid).exc = "none"
         /\ setup = read_inputfile(Directory(inputfile_ls, turbfiles), runid).setup

NextSetup == InitPadeops \/ NewTurbineArray \/ WriteMetadata \/ Return

SpecSetup == InitSetup /\ [][NextSetup]_vars

----------------------------------------------------------------------------
(* Writing archives and opening them *)

\* the terms slice() is to return: the names parsed from key_subset
sliced(key_subset) ==
    DOMAIN parse_budget_terms([names |-> key_subset, pairs |-> {}], FALSE)

\* slices[key] = preslice[key] over the whole domain: KeyError if a parsed
\* name is not cached after the read
slice_arrays(s, key_subset) ==
    IF s.exc # "none" THEN s
    ELSE IF ~(sliced(key_subset) \subseteq DOMAIN s.budget)
         THEN Raise(s, "KeyError")
    ELSE s

\* slice(budget_terms=key_subset): parses the names, reads them with
\* tidx=None and overwrite=False, and slices into self.budget
slice_budgets(s, key_subset, order) ==
    slice_arrays(read_budgets(s, [names |-> sliced(key_subset), pairs |-> {}],
                              FALSE, None, order),
                 key_subset)

\* write_metadata(write_dir, fname, src, x, y, z): saves the axes and the
\* origin, whatever file is there
write_metadata(d, src) ==
    [d EXCEPT ![src].metadata =
        [exists |-> TRUE,
         data |-> [x |-> grid.xLine, y |-> grid.yLine, z |-> grid.zLine,
                   origin |-> grid.origin]]]

\* the keys the saving loop visits: with view, key_subset is the live
\* self.budget.keys(), read after slice()
loop_keys(s, key_subset, view) ==
    IF view THEN DOMAIN s.budget ELSE key_subset

\* np.savez / savemat of the arrays, then write_metadata
save_files(s, d, src, keys) ==
    write_metadata([d EXCEPT ![src].budgets =
                       [exists |-> TRUE, data |-> [k \in keys |-> s.budget[k]]]],
                   src)

\* a variant of the write that saves the metadata before it looks for an
\* existing budgets file
write_files_metadata_first(s, d, src, key_subset, view, overwrite) ==
    IF s.exc # "none" THEN [s |-> s, dest |-> d, saved |-> FALSE]
    ELSE IF d[src].budgets.exists /\ ~overwrite
         THEN [s |-> s, dest |-> write_metadata(d, src), saved |-> FALSE]
    ELSE IF ~(loop_keys(s, key_subset, view) \subseteq sliced(key_subset))
         THEN [s |-> Raise(s, "KeyError"), dest |-> d, saved |-> FALSE]
    ELSE [s |-> s,
          dest |-> save_files(s, d, src, loop_keys(s, key_subset, view)),
          saved |-> TRUE]

\* write_npz and write_mat from the test of the destination on, s the
\* session after slice()
write_files(s, d, src, key_subset, view, overwrite) ==
    IF s.exc # "none" THEN [s |-> s, dest |-> d, saved |-> FALSE]
    \* existing file and no overwrite: return
    ELSE IF d[src].budgets.exists /\ ~overwrite
         THEN [s |-> s, dest |-> d, saved |-> FALSE]
    \* save_arrs[key] = sl[key]
    ELSE IF ~(loop_keys(s, key_subset, view) \subseteq sliced(key_subset))
         THEN [s |-> Raise(s, "KeyError"), dest |-> d, saved |-> FALSE]
    \* np.savez / savemat, then write_metadata
    ELSE [s |-> s,
          dest |-> save_files(s, d, src, loop_keys(s, key_subset, view)),
          saved |-> TRUE]

\* the key_subset of write_npz: the cached names under 'current', the
\* parsed terms otherwise
key_subset_npz(s, budget_terms, current) ==
    IF current THEN DOMAIN s.budget
    ELSE DOMAIN parse_budget_terms(budget_terms, FALSE)

\* the key_subset of write_mat: 'current' is parsed like a list of terms
key_subset_mat(s, budget_terms, current) ==
    DOMAIN parse_budget_terms(
        IF current THEN [names |-> DOMAIN s.budget, pairs |-> {}] ELSE budget_terms,
        FALSE)

\* a variant of write_npz that looks for the budgets container before it
\* loads the terms
write_npz_test_first(s, d, budget_terms, current, overwrite, order) ==
    IF ~associate_budgets THEN [s |-> s, dest |-> d, saved |-> FALSE]
    ELSE IF d["npz"].budgets.exists /\ ~overwrite
         THEN [s |-> s, dest |-> d, saved |-> FALSE]
    ELSE write_files(
             slice_budgets(s, key_subset_npz(s, budget_terms, current), order),
             d, "npz", key_subset_npz(s, budget_terms, current), current,
             overwrite)

\* write_npz(write_dir, budget_terms, overwrite)
write_npz(s, d, budget_terms, current, overwrite, order) ==
    IF ~associate_budgets THEN [s |-> s, dest |-> d, saved |-> FALSE]
    ELSE write_files(
             slice_budgets(s, key_subset_npz(s, budget_terms, current), order),
             d, "npz", key_subset_npz(s, budget_terms, current), current,
             overwrite)

\* write_mat(write_dir, budget_terms, overwrite)
write_mat(s, d, budget_terms, current, overwrite, order) ==
    IF ~associate_budgets THEN [s |-> s, dest |-> d, saved |-> FALSE]
    ELSE write_files(
             slice_budgets(s, key_subset_mat(s, budget_terms, current), order),
             d, "mat", key_subset_mat(s, budget_terms, current), FALSE,
             overwrite)

\* a write: its arguments, the destination before it, whether it saved
WriteCall(op, budget_terms, current, overwrite, r) ==
    Call(op, budget_terms, None, overwrite, FALSE, FALSE, FALSE, r.s, EmptyBudget)
    @@ [current |-> current, pre_dest |-> dest, saved |-> r.saved]

\* what a write leaves: the cache after slice(), the files, and a record
\* of what was saved from which cache and which axes and origin
Written(src, budget_terms, current, r) ==
    /\ budget' = r.s.budget
    /\ budget_src' = r.s.src
    /\ budget_tidx' = r.s.budget_tidx
    /\ dest' = r.dest
    /\ wrote' = IF r.saved
                THEN [fmt |-> src, budget_terms |-> budget_terms,
                      current |-> current, budget |-> r.s.budget,
                      x |-> grid.xLine, y |-> grid.yLine, z |-> grid.zLine,
                      origin |-> grid.origin, n |-> wrote.n + 1]
                ELSE wrote
    /\ UNCHANGED <<dir_vars, grid>>

WriteNpz ==
    /\ Idle
    /\ wrote.n < MaxWrites
    /\ \E budget_terms \in Requests, current \in BOOLEAN, overwrite \in BOOLEAN,
          order \in Orders :
         /\ current => budget_terms = NoRequest
         /\ \E r \in {write_npz(Session, dest, budget_terms, current, overwrite, order)} :
               /\ Written("npz", budget_terms, current, r)
               /\ last' = WriteCall("write_npz", budget_terms, current, overwrite, r)

WriteMat ==
    /\ Idle
    /\ wrote.n < MaxWrites
    /\ \E budget_terms \in Requests, current \in BOOLEAN, overwrite \in BOOLEAN,
          order \in Orders :
         /\ current => budget_terms = NoRequest
         /\ \E r \in {write_mat(Session, dest, budget_terms, current, overwrite, order)} :
               /\ Written("mat", budget_terms, current, r)
               /\ last' = WriteCall("write_mat", budget_terms, current, overwrite, r)

\* the names the latest saving write was given
SameNames ==
    IF wrote.current THEN [names |-> DOMAIN wrote.budget, pairs |-> {}]
    ELSE wrote.budget_terms

\* a session just constructed: nothing cached
FreshSession ==
    [budget |-> EmptyBudget, src |-> EmptyBudget, budget_tidx |-> None,
     log |-> <<>>, exc |-> "none", inflow |-> NoInflow]

\* BudgetIO(write_dir, npz=True, read_budgets=names) or
\* BudgetIO(write_dir, mat=True, read_budgets=names): a fresh session over
\* the archive the latest write saved, reading the names that write was given
Reopen ==
    /\ Idle
    /\ wrote.fmt # "none"
    /\ dest[wrote.fmt].metadata.exists
    /\ UNCHANGED <<dest, wrote, setup>>
    /\ backend' = wrote.fmt
    /\ files' = {}
    /\ all_budget_tidx' = <<>>
    /\ store' = dest[wrote.fmt].budgets.data
    /\ archive' = DOMAIN dest[wrote.fmt].budgets.data
    /\ associate_budgets' = dest[wrote.fmt].budgets.exists
    /\ grid' = load_grid_axes(dest[wrote.fmt].metadata.data.x,
                              dest[wrote.fmt].metadata.data.y,
                              dest[wrote.fmt].metadata.data.z,
                              dest[wrote.fmt].metadata.data.origin)
    /\ \E order \in Orders :
         \E s \in {(read_budgets(FreshSession, SameNames, FALSE, None, order))'} :
            /\ budget' = s.budget
            /\ budget_src' = s.src
            /\ budget_tidx' = s.budget_tidx
            /\ last' = [NoCall EXCEPT !.op = "__init__", !.budget_terms = SameNames,
                                      !.log = s.log, !.exc = s.exc,
                                      !.inflow = s.inflow]

\* the run directories and archives written from
WriteFiles == {{}, {<<0, 1, 1>>}, {<<0, 1, 1>>, <<0, 2, 1>>}}
WriteArchives == {{"ubar", "vbar"}}

\* BudgetIO(dir_name, padeops=True, normalize_origin=xyz, read_budgets=terms)
\* and BudgetIO(dir_name, npz=True, read_budgets=terms), next to a directory
\* to write to that holds nothing, or files of an earlier session
InitWrite ==
    /\ backend \in {"padeops", "npz"}
    /\ IF backend = "padeops"
       THEN /\ files \in WriteFiles
            /\ archive = {}
            /\ associate_budgets = (files # {})
       ELSE /\ files = {}
            /\ archive \in WriteArchives
            /\ associate_budgets = TRUE
    /\ all_budget_tidx = unique_budget_tidx_all
    /\ store = [n \in archive |-> ArchiveData(n)]
    \* _load_grid(normalize_origin=xyz); _init_npz() is given no point
    /\ \E xyz \in Targets :
         /\ backend # "padeops" => xyz = NoPoint
         /\ grid = IF backend # "padeops"
                   THEN load_grid_axes(BaseGrid.xLine, BaseGrid.yLine,
                                       BaseGrid.zLine, <<0, 0, 0>>)
                   ELSE IF xyz = NoPoint THEN BaseGrid
                   ELSE normalize_origin(BaseGrid, xyz)
    \* self.budget = {}, then read_budgets(budget_terms=read_budgets) if given
    /\ \E given \in BOOLEAN, budget_terms \in Requests, order \in Orders :
         /\ ~given => budget_terms = NoRequest
         /\ \E s \in {IF given
                      THEN read_budgets(
                               [FreshSession EXCEPT !.budget_tidx =
                                   IF backend = "padeops" /\ associate_budgets
                                   THEN unique_budget_tidx_last ELSE None],
                               budget_terms, FALSE, None, order)
                      ELSE [FreshSession EXCEPT !.budget_tidx =
                                   IF backend = "padeops" /\ associate_budgets
                                   THEN unique_budget_tidx_last ELSE None]} :
               /\ s.exc = "none"
               /\ budget = s.budget
               /\ budget_src = s.src
               /\ budget_tidx = s.budget_tidx
    /\ last = NoCall
    /\ \E b \in {NoFile, OldBudgets}, m \in {NoFile, OldMetadata} :
         dest = [npz |-> [budgets |-> b, metadata |-> m],
                 mat |-> [budgets |-> b, metadata |-> m]]
    /\ wrote = NoWrite
    /\ setup = BaseSetup

NextWrite == WriteNpz \/ WriteMat \/ Reopen \/ Return

SpecWrite == InitWrite /\ [][NextWrite]_vars

----------------------------------------------------------------------------
(* Properties *)

Raw == backend = "padeops"
Avail == Range(all_budget_tidx)
LastRead == last.op = "read_budgets"
Cleared(i) == last.log[i].ev = "clear"
Loaded(i) == last.log[i].ev = "load"
\* the valid terms of the latest request
ValidRequested == DOMAIN parse_budget_terms(last.budget_terms, FALSE)
\* the call was given a time index other than the one of the cache
TidxChanged == last.tidx # None /\ last.tidx # last.pre_tidx
MeanOf(w) == CASE w = "uwake" -> "ubar" [] w = "vwake" -> "vbar" [] w = "wwake" -> "wbar"
Dist(a, b) == IF a < b THEN b - a ELSE a - b
\* the available time index nearest to t, the smaller of two equally near
Nearest(t) ==
    CHOOSE n \in Avail :
        \A m \in Avail : Dist(n, t) < Dist(m, t) \/ (Dist(n, t) = Dist(m, t) /\ n <= m)

\* C1: on the raw backend, in every reachable state, every array in the
\* cache comes from the files of one time index, and that index is
\* budget_tidx (a wake term comes from the mean it was computed from).
C1_SingleTimeIndex ==
    Raw => \A n \in DOMAIN budget :
              /\ budget_src[n] = budget_tidx
              /\ n \in MeanNames => budget[n] = FileData(key(n), budget_tidx)

\* a read at another time index on a cache that held entries, which holds
\* entries again afterwards
C1_Witness ==
    /\ Raw /\ LastRead
    /\ last.pre_budget # EmptyBudget /\ budget # EmptyBudget
    /\ last.pre_tidx # budget_tidx

C3_InvalidationBeforeLoads ==
    (LastRead /\ TidxChanged) =>
        \A i, j \in DOMAIN last.log : (Loaded(i) /\ Cleared(j)) => j < i

\* C4: read_budgets without overwrite loads no term that was cached, before
\* the call, from the time index the call reads.
C4_NoReloadWithoutOverwrite ==
    (LastRead /\ ~last.overwrite) =>
        \A i \in DOMAIN last.log :
            Loaded(i) =>
               \A n \in last.log[i].terms :
                  ~(n \in DOMAIN last.pre_budget /\ last.pre_src[n] = last.log[i].tidx)

\* the time index a read_budgets call on the raw backend reads
ReadTidx ==
    IF last.tidx = None THEN last.pre_tidx
    ELSE IF last.tidx \in Avail THEN last.tidx ELSE Nearest(last.tidx)
FileAt(n, t) == <<key(n)[1], key(n)[2], t>> \in files

\* C5: on the raw backend, a read_budgets call that asks for a term with no
\* file at the time index read, next to a term that has one, returns, and
\* has loaded the terms asked for that do have a file there.
C5_MissingFileSkipped ==
    (Raw /\ associate_budgets /\ LastRead /\ last.budget_terms.names \cap WakeNames = {}
       /\ \E n \in ValidRequested : ~FileAt(n, ReadTidx)
       /\ \E m \in ValidRequested : FileAt(m, ReadTidx)) =>
        /\ last.exc = "none"
        /\ \A n \in ValidRequested : FileAt(n, ReadTidx) => n \in DOMAIN budget

\* C6: a read_budgets call that raises while it loads the terms asked for
\* (none of them a wake term) leaves the cache and budget_tidx as they were
\* before the call.
C6_FailureLeavesCache ==
    (LastRead /\ last.exc # "none" /\ last.budget_terms.names \cap WakeNames = {}) =>
        budget = last.pre_budget /\ budget_tidx = last.pre_tidx

\* a read_budgets call on the raw backend that was given a time index with
\* no budget files and returned
Substituted ==
    Raw /\ LastRead /\ last.exc = "none" /\ last.tidx # None /\ last.tidx \notin Avail

\* C7 as stated: after such a call the cache comes from the nearest
\* available index and budget_tidx is that index.
C7_BudgetTidxIsNearest ==
    Substituted =>
        /\ \A n \in DOMAIN budget : budget_src[n] = Nearest(last.tidx)
        /\ budget_tidx = Nearest(last.tidx)

\* C7, amended: after such a call every cached array is the file content at
\* the nearest available index (the smaller of two equally near), every
\* load after the clearing read that index, and budget_tidx is that index
\* when the call loaded a term and the largest available index when it
\* loaded none; it is never the index asked for.
C7_NearestSubstituted ==
    Substituted =>
        /\ \A n \in DOMAIN budget :
              /\ budget_src[n] = Nearest(last.tidx)
              /\ budget[n] = FileData(key(n), Nearest(last.tidx))
        /\ \A i, j \in DOMAIN last.log :
              (Cleared(i) /\ i < j /\ Loaded(j)) => last.log[j].tidx = Nearest(last.tidx)
        /\ budget_tidx = IF budget = EmptyBudget
                         THEN all_budget_tidx[Len(all_budget_tidx)]
                         ELSE Nearest(last.tidx)
        /\ budget_tidx # last.tidx

\* the index asked for lies midway between two available ones, and the
\* term was loaded from the smaller
C7_Witness ==
    /\ Substituted
    /\ last.tidx - 1 \in Avail /\ last.tidx + 1 \in Avail
    /\ budget # EmptyBudget
    /\ budget_tidx = last.tidx - 1

\* C8: _parse_budget_terms returns a mapping whose keys are exactly the
\* terms asked for, by name or by pair, that existing_terms lists, each
\* mapped to its registry pair; other entries of the request are left out
\* and raise nothing.
C8_ParseKeepsAvailable ==
    last.op = "parse_budget_terms" =>
        /\ last.exc = "none"
        /\ DOMAIN last.ret =
              {n \in Names : /\ n \in last.budget_terms.names
                                \/ key(n) \in last.budget_terms.pairs
                             /\ n \in existing_terms(last.include_wakes)}
        /\ \A n \in DOMAIN last.ret : last.ret[n] = key(n)

\* a request made of an available term given as a pair and an unknown name
C8_Witness ==
    /\ last.op = "parse_budget_terms"
    /\ last.budget_terms = [names |-> {"bogus"}, pairs |-> {<<0, 2>>}]
    /\ DOMAIN last.ret = {"vbar"}

\* C9: after a read_budgets call that names wake terms has returned, every
\* wake term named is in the cache, and so is its mean velocity.
C9_WakeCachedAfterRead ==
    (LastRead /\ last.exc = "none") =>
        \A w \in last.budget_terms.names \cap WakeNames :
            w \in DOMAIN budget /\ MeanOf(w) \in DOMAIN budget

InflowOf(w) ==
    CASE w = "uwake" -> last.inflow.u [] w = "vwake" -> last.inflow.v
      [] w = "wwake" -> last.inflow.w

\* C10: every wake term a calc_wake call stores is the inflow profile of
\* its component minus the cached mean velocity, cell by cell.
C10_WakeIsInflowMinusMean ==
    (last.op = "calc_wake" /\ last.exc = "none") =>
        \A i \in DOMAIN last.log :
            last.log[i].ev = "wake" =>
               \A w \in last.log[i].terms : \A c \in Grid :
                  budget[w][c] = InflowOf(w)[c[3]] - budget[MeanOf(w)][c]

\* the cache is as it was before the call, and the call loaded, cleared
\* and computed nothing
CacheUntouched ==
    /\ budget = last.pre_budget
    /\ budget_src = last.pre_src
    /\ budget_tidx = last.pre_tidx
    /\ last.log = <<>>
    /\ last.exc = "none"

\* the wake terms calc_wake(wInflow) computes
TargetTerms(wInflow) == {"uwake", "vwake"} \cup (IF wInflow THEN {"wwake"} ELSE {})

\* C11: with all target wake terms cached, calc_wake without overwrite, and
\* read_budgets without overwrite naming cached wake terms at the time
\* index of the cache, change no cache entry and load nothing.
C11_CalcWakeIdempotent ==
    /\ (last.op = "calc_wake" /\ ~last.overwrite
          /\ TargetTerms(last.wInflow) \subseteq DOMAIN last.pre_budget)
        => CacheUntouched
    /\ (LastRead /\ ~last.overwrite
          /\ last.budget_terms.pairs = {}
          /\ last.budget_terms.names # {}
          /\ last.budget_terms.names \subseteq WakeNames \cap DOMAIN last.pre_budget
          /\ TargetTerms(FALSE) \subseteq DOMAIN last.pre_budget
          /\ last.tidx \in {None, last.pre_tidx})
        => CacheUntouched

\* calc_wake(wInflow=True) a second time, all three wake terms cached
C11_Witness ==
    /\ last.op = "calc_wake" /\ ~last.overwrite /\ last.wInflow
    /\ TargetTerms(TRUE) \subseteq DOMAIN last.pre_budget
    /\ budget = last.pre_budget

\* the session as it was before the latest call
PreSession ==
    [budget |-> last.pre_budget, src |-> last.pre_src,
     budget_tidx |-> last.pre_tidx, log |-> <<>>, exc |-> "none",
     inflow |-> NoInflow]

\* the cache the latest read_budgets call would have left with tidx=None
CacheWithoutTidx ==
    read_budgets(PreSession, last.budget_terms, last.overwrite, None,
                 CHOOSE o \in Orders : TRUE).budget

\* C15: on an archive backend a read_budgets call with a time index leaves
\* the cache the same call with tidx=None leaves; without overwrite the
\* terms cached before the call are still cached.  Stated for the calls
\* that name no wake term.
C15_ArchiveIgnoresTidx ==
    (LastRead /\ ~Raw /\ last.tidx # None
       /\ last.budget_terms.names \cap WakeNames = {}) =>
        /\ budget = CacheWithoutTidx
        /\ ~last.overwrite => DOMAIN last.pre_budget \subseteq DOMAIN budget

----------------------------------------------------------------------------
(* The grid *)

LastNormalize == last.op = "normalize_origin"

\* the axes _load_grid built, before any normalize_origin call
Unshifted_xLine == load_grid(grid.Lx, grid.Ly, grid.Lz, grid.nx, grid.ny, grid.nz).xLine
Unshifted_yLine == load_grid(grid.Lx, grid.Ly, grid.Lz, grid.nx, grid.ny, grid.nz).yLine
Unshifted_zLine == load_grid(grid.Lx, grid.Ly, grid.Lz, grid.nx, grid.ny, grid.nz).zLine

\* C19: after any sequence of normalize_origin calls each axis is the
\* un-shifted axis minus the stored origin; a call with the target the
\* origin already has leaves the axes alone; a call with None leaves the
\* un-shifted axes and the origin (0, 0, 0); normalized_xyz is true after a
\* call with a target and false after a call with None.
C19_Recentering ==
    /\ \A i \in DOMAIN grid.xLine : grid.xLine[i] = Unshifted_xLine[i] - grid.origin[1]
    /\ \A i \in DOMAIN grid.yLine : grid.yLine[i] = Unshifted_yLine[i] - grid.origin[2]
    /\ \A i \in DOMAIN grid.zLine : grid.zLine[i] = Unshifted_zLine[i] - grid.origin[3]
    /\ LastNormalize =>
          /\ grid.normalized_xyz = (last.xyz # NoPoint)
          /\ (last.xyz # NoPoint /\ last.xyz = last.pre_grid.origin) =>
                /\ grid.xLine = last.pre_grid.xLine
                /\ grid.yLine = last.pre_grid.yLine
                /\ grid.zLine = last.pre_grid.zLine
          /\ last.xyz = NoPoint =>
                /\ grid.origin = <<0, 0, 0>>
                /\ grid.xLine = Unshifted_xLine
                /\ grid.yLine = Unshifted_yLine
                /\ grid.zLine = Unshifted_zLine

\* C20: a grid built from the extents L and the counts n has, with d the
\* n-th part of L, x and y axes of n points from 0 to L - d and a z axis of
\* n points from d / 2 to L - d / 2.
C20_GridFromExtents ==
    last.op = "__init__" =>
        /\ Len(grid.xLine) = grid.nx /\ Len(grid.yLine) = grid.ny
        /\ Len(grid.zLine) = grid.nz
        /\ grid.nx * grid.dx = grid.Lx /\ grid.ny * grid.dy = grid.Ly
        /\ grid.nz * grid.dz = grid.Lz
        /\ grid.xLine[1] = 0 /\ grid.xLine[grid.nx] = grid.Lx - grid.dx
        /\ grid.yLine[1] = 0 /\ grid.yLine[grid.ny] = grid.Ly - grid.dy
        /\ 2 * grid.zLine[1] = grid.dz
        /\ 2 * grid.zLine[grid.nz] = 2 * grid.Lz - grid.dz

\* three points along each axis of a domain of twice the least extent
C20_Witness ==
    /\ last.op = "__init__"
    /\ grid.nx = MaxN /\ grid.nz = MaxN /\ grid.Lz = 2 * LeastExtent
    /\ 2 * grid.zLine[1] = grid.dz
    /\ grid.zLine[1] > 0

----------------------------------------------------------------------------
(* The directory queries *)

\* the budget ids present: in the file names of a run directory, through
\* the names stored in an archive
PresentBudgets ==
    IF Raw THEN {f[1] : f \in files} ELSE {key(t)[1] : t \in archive}

Ascending(q) == \A i, j \in DOMAIN q : i < j => q[i] < q[j]

\* C16: existing_budgets returns the ascending list of the distinct budget
\* ids present, with the wake budget 5 added exactly when the backend is
\* raw and budget 0 is present; on an archive it reports only the budgets
\* of names stored.
C16_ExistingBudgets ==
    last.op = "existing_budgets" =>
        /\ Ascending(last.ret)
        /\ Range(last.ret) =
              PresentBudgets \cup (IF Raw /\ 0 \in PresentBudgets THEN {5} ELSE {})

\* C17: existing_terms returns symbolic names on every backend, with a
\* budget filter or without.
C17_ExistingTermsNames ==
    last.op = "existing_terms" =>
        /\ last.ret.kind = "names"
        /\ last.ret.terms \subseteq Names

----------------------------------------------------------------------------
(* Sessions without budgets, forced reloads, and the index after a clear *)

\* C22: a session over a raw directory without budget files exists, has no
\* budgets associated, and every read_budgets call on it raises and leaves
\* the cache empty.
C22_NoBudgetFiles ==
    (Raw /\ files = {}) =>
        /\ ~associate_budgets
        /\ budget = EmptyBudget
        /\ LastRead => last.exc = "AttributeError"

\* read_budgets(['ubar', 'uwake']) on such a session
C22_Witness ==
    /\ Raw /\ files = {}
    /\ LastRead
    /\ last.budget_terms.names = {"ubar", "uwake"}
    /\ last.exc = "AttributeError"
    /\ budget = EmptyBudget

\* the largest time index of the budget files of the run directory
LastTidx == all_budget_tidx[Len(all_budget_tidx)]

\* C26: a read_budgets call with overwrite=True and the time index of the
\* cache, once returned, has cleared the cache before every load, and the
\* cache holds exactly the valid terms asked for: terms cached before and
\* not asked for are gone.
C26_OverwriteClearsAll ==
    (LastRead /\ last.exc = "none" /\ last.overwrite /\ last.tidx = last.pre_tidx) =>
        /\ DOMAIN budget = ValidRequested
        /\ \E i \in DOMAIN last.log : Cleared(i)
        /\ \A n \in DOMAIN budget :
              \E i, j \in DOMAIN last.log :
                 Cleared(i) /\ i < j /\ Loaded(j) /\ n \in last.log[j].terms

\* ubar and vbar cached, then read_budgets(['vbar'], overwrite=True) at the
\* time index of the cache: vbar alone is cached
C26_Witness ==
    /\ LastRead /\ last.exc = "none" /\ last.overwrite
    /\ last.tidx = last.pre_tidx
    /\ {"ubar", "vbar"} \subseteq DOMAIN last.pre_budget
    /\ last.budget_terms = [names |-> {"vbar"}, pairs |-> {}]
    /\ DOMAIN budget = {"vbar"}

\* C28: on a raw session with budgets, clear_budgets leaves an empty cache
\* and budget_tidx at the largest time index of the directory, whatever
\* index was active; so does a read_budgets call given another time index
\* and no valid term; an empty cache always goes with that index, and a
\* read_budgets call with tidx=None on an empty cache loads from it.
C28_ClearResetsToLast ==
    (Raw /\ associate_budgets) =>
        /\ last.op = "clear_budgets" =>
              budget = EmptyBudget /\ budget_tidx = LastTidx
        /\ (LastRead /\ last.exc = "none" /\ TidxChanged /\ ValidRequested = {}
              /\ last.budget_terms.names \cap WakeNames = {}) =>
              budget = EmptyBudget /\ budget_tidx = LastTidx
        /\ budget = EmptyBudget => budget_tidx = LastTidx
        /\ (LastRead /\ last.tidx = None /\ last.pre_budget = EmptyBudget) =>
              \A i \in DOMAIN last.log : Loaded(i) => last.log[i].tidx = LastTidx

\* clear_budgets on a cache loaded from an earlier index
C28_Witness ==
    /\ Raw /\ associate_budgets
    /\ last.op = "clear_budgets"
    /\ last.pre_budget # EmptyBudget
    /\ last.pre_tidx < LastTidx
    /\ budget = EmptyBudget
    /\ budget_tidx = LastTidx

----------------------------------------------------------------------------
(* The key registry, both ways *)

----------------------------------------------------------------------------
(* Written archives *)

\* the latest call was a write; the format it writes
IsWrite == last.op \in {"write_npz", "write_mat"}
WriteFmt == IF last.op = "write_npz" THEN "npz" ELSE "mat"

\* C12: write_npz and write_mat called with overwrite=False while the
\* budgets container exists at the destination write nothing: the budgets
\* container and the metadata record are as they were before the call.
C12_RefusedWriteWritesNothing ==
    (/\ IsWrite
     /\ ~last.overwrite
     /\ last.pre_dest[WriteFmt].budgets.exists) =>
        /\ dest = last.pre_dest
        /\ ~last.saved

\* a session with budgets, asked for a term it can save, refused over an
\* existing container with no metadata record next to it
C12_Witness ==
    /\ IsWrite
    /\ ~last.overwrite
    /\ associate_budgets
    /\ last.exc = "none"
    /\ last.budget_terms.names \cap DOMAIN budget # {}
    /\ last.pre_dest[WriteFmt].budgets.exists
    /\ ~last.pre_dest[WriteFmt].metadata.exists

\* C13: with overwrite=False no write replaces a file that exists at the
\* destination, be it the budgets container or the metadata record.
C13_NoOverwriteReplacesNothing ==
    (IsWrite /\ ~last.overwrite) =>
        \A fmt \in {"npz", "mat"} :
            /\ last.pre_dest[fmt].budgets.exists =>
                  dest[fmt].budgets = last.pre_dest[fmt].budgets
            /\ last.pre_dest[fmt].metadata.exists =>
                  dest[fmt].metadata = last.pre_dest[fmt].metadata

\* the terms chosen for the latest saving write, by name or by pair
Chosen ==
    SameNames.names \cup
       {key_inverse(tup) : tup \in {t \in SameNames.pairs : InKeyInverse(t)}}

\* C14: after a write of chosen terms that were all loaded, a fresh session
\* constructed from the archive that reads the same names holds, for each of
\* them, an array equal to the original, and its axes and origin are those
\* of the session that wrote, recentered or not.
C14_RoundTrip ==
    (/\ last.op = "__init__"
     /\ Chosen # {}
     /\ Chosen \subseteq DOMAIN wrote.budget
     /\ \A t \in SameNames.pairs : InKeyInverse(t)) =>
        /\ last.exc = "none"
        /\ \A n \in Chosen :
              /\ n \in DOMAIN budget
              /\ budget[n] = wrote.budget[n]
        /\ grid.xLine = wrote.x
        /\ grid.yLine = wrote.y
        /\ grid.zLine = wrote.z
        /\ grid.origin = wrote.origin

\* the terms the latest write selected: the valid ones among those named,
\* or among those cached before it under 'current'
Selected ==
    DOMAIN parse_budget_terms(
        IF last.current THEN [names |-> DOMAIN last.pre_budget, pairs |-> {}]
        ELSE last.budget_terms,
        FALSE)

\* the latest write was refused: no overwrite, budgets container in place
Refused ==
    /\ IsWrite
    /\ associate_budgets
    /\ ~last.overwrite
    /\ last.pre_dest[WriteFmt].budgets.exists

\* C24: write_npz(budget_terms='current') on a destination it may write
\* saves every term cached before the call, wake terms included, and
\* write_npz and write_mat select the same terms under 'current'.
C24_CurrentSavesWholeCache ==
    /\ (/\ last.op = "write_npz"
        /\ last.current
        /\ associate_budgets
        /\ last.overwrite \/ ~last.pre_dest["npz"].budgets.exists) =>
           /\ last.exc = "none"
           /\ last.saved
           /\ DOMAIN dest["npz"].budgets.data = DOMAIN last.pre_budget
           /\ \A n \in DOMAIN last.pre_budget :
                 dest["npz"].budgets.data[n] = last.pre_budget[n]
    /\ (IsWrite /\ last.current) =>
           key_subset_npz(PreSession, NoRequest, TRUE)
              = key_subset_mat(PreSession, NoRequest, TRUE)

\* C27: a write that is refused because the budgets container exists has
\* loaded the selected terms into the cache first: once it has returned,
\* the files are as they were, every selected term is cached, and nothing
\* cached before the call is gone or changed.
C27_RefusedWriteLoads ==
    (Refused /\ last.exc = "none") =>
        /\ dest = last.pre_dest
        /\ Selected \subseteq DOMAIN budget
        /\ \A n \in DOMAIN last.pre_budget :
              n \in DOMAIN budget /\ budget[n] = last.pre_budget[n]

\* a refused write_npz of ubar and vbar on a session that had neither
\* cached: both are cached after it
C27_Witness ==
    /\ Refused /\ last.exc = "none"
    /\ last.op = "write_npz"
    /\ last.pre_budget = EmptyBudget
    /\ Selected = {"ubar", "vbar"}
    /\ DOMAIN budget = {"ubar", "vbar"}
    /\ dest = last.pre_dest

----------------------------------------------------------------------------
(* The grid, loaded again *)

\* C25: a call to _load_grid with its default arguments on a session whose
\* grid is associated leaves the axes, the cell counts, the spacings and
\* the origin as they were, verbose or not.
C25_GridLoadedOnce ==
    (last.op = "_load_grid" /\ last.xyz = NoPoint) =>
        /\ grid.xLine = last.pre_grid.xLine
        /\ grid.yLine = last.pre_grid.yLine
        /\ grid.zLine = last.pre_grid.zLine
        /\ <<grid.nx, grid.ny, grid.nz>>
              = <<last.pre_grid.nx, last.pre_grid.ny, last.pre_grid.nz>>
        /\ <<grid.dx, grid.dy, grid.dz>>
              = <<last.pre_grid.dx, last.pre_grid.dy, last.pre_grid.dz>>
        /\ grid.origin = last.pre_grid.origin

----------------------------------------------------------------------------
(* Slices *)

IsSlice == last.op = "slice"

\* the line of axis a of the grid
Line(a) == <<grid.xLine, grid.yLine, grid.zLine>>[a]

\* the sliced axis a that a slice call returned
SlicedAxis(a) == <<last.ret.x, last.ret.y, last.ret.z>>[a]

\* axis a is an axis of the returned array, with n elements
InArray(a, n) ==
    \E p \in DOMAIN last.ret.axes :
        last.ret.axes[p] = a /\ last.ret.shape[p] = n

FullLimit(a) ==
    \/ last.lim[a].kind = "none"
    \/ /\ last.lim[a].kind = "range"
       /\ last.lim[a].lo = Line(a)[1]
       /\ last.lim[a].hi = Line(a)[Len(Line(a))]

\* min and max of the sliced axis a if the array still has it
ExtentOf(a) ==
    IF \E p \in DOMAIN last.ret.axes : last.ret.axes[p] = a
    THEN axis_extent([ndim |-> 1, val |-> SlicedAxis(a).val])
    ELSE <<>>

\* C21: after slice, on each axis by itself: without a bound, or with the
\* range of the whole axis, the returned array keeps the axis at its full
\* length; with a scalar bound the returned array has lost the axis; and
\* 'extent' is min and max of exactly the axes the array still has, in
\* x, y, z order.
C21_SliceAxes ==
    IsSlice =>
        /\ \A a \in 1..3 :
             /\ FullLimit(a) => InArray(a, Len(Line(a)))
             /\ last.lim[a].kind = "scalar"
                   => ~\E p \in DOMAIN last.ret.axes : last.ret.axes[p] = a
        /\ last.ret.extent = ExtentOf(1) \o ExtentOf(2) \o ExtentOf(3)

----------------------------------------------------------------------------
(* The configuration file a session reads, and its turbines *)

\* C29: when a raw-backend constructor is given a runid and the directory
\* has configuration files, none of which carries that runid, construction
\* does not fail: the first configuration file is the one used and the
\* session's runid is the runid of that file.
C29_RunidFallback ==
    (/\ last.op = "_init_padeops"
     /\ last.runid # None
     /\ setup.inputfiles # <<>>
     /\ \A i \in DOMAIN setup.inputfiles : setup.inputfiles[i] # last.runid)
    => /\ last.exc = "none"
       /\ setup.input_nml = 1
       /\ setup.runid = setup.inputfiles[1]

\* the number of turbines a TurbineArray call was to hold by the claim
Held ==
    IF last.num_turbines < Len(last.init_ls)
    THEN last.num_turbines ELSE Len(last.init_ls)

\* C30: a TurbineArray built from a list of inputs with num_turbines given
\* holds min(num_turbines, number of inputs) turbines, those of the first
\* inputs, numbered in the order of the inputs, and its num_turbines is the
\* value asked for; write_metadata asks for the series of turbines
\* 1 .. num_turbines, whatever the number of turbines held.
C30_TurbinesHeld ==
    /\ (last.op = "TurbineArray" /\ last.exc = "none" /\ last.num_turbines # None)
          => /\ Len(setup.turbineArray.turbines) = Held
             /\ setup.turbineArray.array = SubSeq(last.init_ls, 1, Held)
             /\ {t.n : t \in Range(setup.turbineArray.turbines)} = 1..Held
             /\ \A t \in Range(setup.turbineArray.turbines) :
                    t.xloc = last.init_ls[t.n]
             /\ setup.turbineArray.num_turbines = last.num_turbines
    /\ last.op = "write_metadata"
          => /\ last.asked \subseteq 1..setup.turbineArray.num_turbines
             /\ last.exc = "none" => last.asked = 1..setup.turbineArray.num_turbines
             /\ last.exc # "none" => \E k \in last.asked : k \notin setup.turbfiles

\* write_metadata asked for the series of a turbine the array does not hold
C30_Witness ==
    /\ last.op = "write_metadata"
    /\ \E k \in last.asked : k > Len(setup.turbineArray.turbines)
    /\ Len(setup.turbineArray.turbines) > 0

====
